---- MODULE Spec2Model ----
(***************************************************************************)
(* A model of the Ganesh Dairy bookkeeping program (src/DMS.py): the       *)
(* SQLite tables as bags of rows (the autoincrement id, which no query     *)
(* modelled here reads, is left out), one action per GUI handler or helper *)
(* call, and the helper functions as operators.                            *)
(*                                                                         *)
(* Numbers are fixed point.  FAT, SNF, litres, rates and money are kept in *)
(* thousandths (3.0 % fat is 3000, Rs 30.00 is 30000), so that rounding to *)
(* one or two decimals is a real operation.  A text-entry value that does  *)
(* not parse as a number is the entry NonNumeric.  Category names are      *)
(* sequences of characters, so that lower() and startswith() are computed. *)
(***************************************************************************)
EXTENDS Integers, Sequences, FiniteSets, Bags, TLC

VARIABLES
    rate_table,          \* table rate_table: rows [category, fat, snf, rate]
    farmers,             \* table farmers: rows [farmer_code, category]
    add_dialogs,         \* open "Add Farmer" dialogs: [next_code, conn_open]
    milk_records,        \* table milk_records
    advances,            \* table advances: rows [farmer_code, date, amount]
    advance_deductions,  \* table advance_deductions: [farmer_code, month, amount]
    last,                \* what the last handler did and returned or showed
    users,               \* table users: rows [username, password_hash]
    now,                 \* the clock: [date, hour]
    ui                   \* the DairyApp object: [screen, current_user,
                         \*   current_shift_filter, records_tv]

vars == <<rate_table, farmers, add_dialogs, milk_records, advances,
          advance_deductions, last, users, now, ui>>

-----------------------------------------------------------------------------
(* Bounds of the model *)

MaxRates == 3
MaxCode == 3
MaxDialogs == 2
MaxMilk == 3
MaxAdvances == 2
MaxDeductions == 2
MaxDays == 1

-----------------------------------------------------------------------------
(* Values *)

\* The text of an entry field: a number, or text float() rejects.
Num(x) == [numeric |-> TRUE, val |-> x]

NonNumeric == [numeric |-> FALSE, val |-> 0]

Empty == << >>
Cow == <<"C", "o", "w">>
Buffalo == <<"B", "u", "f", "f", "a", "l", "o">>
Both == <<"B", "o", "t", "h">>
LowerBuf == <<"b", "u", "f">>

Abs(x) == IF x < 0 THEN -x ELSE x

Max(a, b) == IF a >= b THEN a ELSE b

Min(a, b) == IF a <= b THEN a ELSE b

IsNumeric(e) == e.numeric

\* an entry left empty
Blank == [numeric |-> FALSE, val |-> 1]

\* Python's round(): n / q to the nearest integer, a tie going to the even one.
RoundHalfEven(n, q) ==
    LET f == n \div q
        r == n % q
    IN  IF 2 * r < q THEN f
        ELSE IF 2 * r > q THEN f + 1
        ELSE IF f % 2 = 0 THEN f ELSE f + 1

\* round(x, 2) of a value in thousandths
Round2(x) == RoundHalfEven(x, 10) * 10

\* round(x, 1) of a value in thousandths
Round1(x) == RoundHalfEven(x, 100) * 100

\* str.lower() on the letters the category names use
LowerChar(ch) ==
    CASE ch = "B" -> "b"
      [] ch = "C" -> "c"
      [] ch = "U" -> "u"
      [] ch = "F" -> "f"
      [] OTHER -> ch

Lower(s) == [i \in DOMAIN s |-> LowerChar(s[i])]

StartsWith(s, p) == Len(s) >= Len(p) /\ SubSeq(s, 1, Len(p)) = p

\* one row as a bag
Row(r) == SetToBag({r})

\* "DELETE FROM table WHERE ...": the table without the rows in the set rows
DeleteWhere(table, rows) == [r \in BagToSet(table) \ rows |-> table[r]]

\* "SELECT COUNT(*) FROM table WHERE ...": how many rows of the table are in rows
CountWhere(table, rows) ==
    BagCardinality([r \in BagToSet(table) \cap rows |-> table[r]])

-----------------------------------------------------------------------------
(* find_rate_for *)

CowBaseFat == 3000
CowBaseRate == 30000
BufBaseFat == 5000
BufBaseRate == 45000
RatePerFat == 5

\* The rows "ORDER BY ABS(col - x) LIMIT 1" may return among the rows `among`:
\* SQLite leaves the order of rows with equal keys unspecified.
NearestBy(among, col, x) ==
    {i \in among : \A j \in among : Abs(i[col] - x) <= Abs(j[col] - x)}

\* find_rate_for without ORDER BY ABS(snf-?) in its exact-fat query
FindRateForWrongSnf(rt, category, fat, snf) ==
    LET cat == IF category = Empty THEN Cow ELSE category
        fat_val == fat
        fat_r == RoundHalfEven(fat_val * 10, 1000) * 100
        exact == {i \in BagToSet(rt) : i.category = cat /\ i.fat = fat_r}
        sameCat == {i \in BagToSet(rt) : i.category = cat}
        buf == StartsWith(Lower(cat), LowerBuf)
        base_fat == IF buf THEN BufBaseFat ELSE CowBaseFat
        base_rate == IF buf THEN BufBaseRate ELSE CowBaseRate
    IN  IF exact # {}
        THEN {Round2(i.rate) : i \in exact}
        ELSE IF sameCat # {}
        THEN {Round2(i.rate) : i \in NearestBy(sameCat, "fat", fat_r)}
        ELSE {Round2(Max(0, base_rate + (fat_val - base_fat) * RatePerFat))}

\* find_rate_for without its closest-fat query: a fat outside the slabs is extrapolated
FindRateForExtrapolated(rt, category, fat, snf) ==
    LET cat == IF category = Empty THEN Cow ELSE category
        fat_val == fat
        fat_r == RoundHalfEven(fat_val * 10, 1000) * 100
        exact == {i \in BagToSet(rt) : i.category = cat /\ i.fat = fat_r}
        sameCat == {i \in BagToSet(rt) : i.category = cat}
        buf == StartsWith(Lower(cat), LowerBuf)
        base_fat == IF buf THEN BufBaseFat ELSE CowBaseFat
        base_rate == IF buf THEN BufBaseRate ELSE CowBaseRate
    IN  IF exact # {}
        THEN {Round2(i.rate) : i \in NearestBy(exact, "snf", snf)}
        ELSE {Round2(Max(0, base_rate + (fat_val - base_fat) * RatePerFat))}

\* find_rate_for with the rounded fat in the fallback formula
FindRateForRoundedFat(rt, category, fat, snf) ==
    LET cat == IF category = Empty THEN Cow ELSE category
        fat_val == fat
        fat_r == RoundHalfEven(fat_val * 10, 1000) * 100
        exact == {i \in BagToSet(rt) : i.category = cat /\ i.fat = fat_r}
        sameCat == {i \in BagToSet(rt) : i.category = cat}
        buf == StartsWith(Lower(cat), LowerBuf)
        base_fat == IF buf THEN BufBaseFat ELSE CowBaseFat
        base_rate == IF buf THEN BufBaseRate ELSE CowBaseRate
    IN  IF exact # {}
        THEN {Round2(i.rate) : i \in NearestBy(exact, "snf", snf)}
        ELSE IF sameCat # {}
        THEN {Round2(i.rate) : i \in NearestBy(sameCat, "fat", fat_r)}
        ELSE {Round2(Max(0, base_rate + (fat_r - base_fat) * RatePerFat))}

\* The values find_rate_for(category, fat, snf) may return on rate table rt.
\* Every caller passes fat as a float, so float(fat) is fat.
FindRateFor(rt, category, fat, snf) ==
    LET cat == IF category = Empty THEN Cow ELSE category
        fat_val == fat
        fat_r == RoundHalfEven(fat_val * 10, 1000) * 100
        exact == {i \in BagToSet(rt) : i.category = cat /\ i.fat = fat_r}
        sameCat == {i \in BagToSet(rt) : i.category = cat}
        buf == StartsWith(Lower(cat), LowerBuf)
        base_fat == IF buf THEN BufBaseFat ELSE CowBaseFat
        base_rate == IF buf THEN BufBaseRate ELSE CowBaseRate
    IN  IF exact # {}
        THEN {Round2(i.rate) : i \in NearestBy(exact, "snf", snf)}
        ELSE IF sameCat # {}
        THEN {Round2(i.rate) : i \in NearestBy(sameCat, "fat", fat_r)}
        ELSE {Round2(Max(0, base_rate + (fat_val - base_fat) * RatePerFat))}

-----------------------------------------------------------------------------
(* The session: users, the clock, the dashboard *)

\* get_shift_for_time of the program's version 5.5
GetShiftForTimeV55(h) ==
    IF 4 <= h /\ h <= 11 THEN "Morning"
    ELSE IF 12 <= h /\ h <= 22 THEN "Evening"
    ELSE "Morning"

\* get_shift_for_time at the hour h of the clock
GetShiftForTime(h) == IF 6 <= h /\ h < 16 THEN "Morning" ELSE "Evening"

\* texts typed as user names and passwords are sequences of characters
Admin == <<"a", "d", "m", "i", "n">>
Admin123 == <<"a", "d", "m", "i", "n", "1", "2", "3">>

\* str.strip()
RECURSIVE Strip(_)
Strip(s) ==
    IF s = <<>> THEN s
    ELSE IF Head(s) = " " THEN Strip(Tail(s))
    ELSE IF s[Len(s)] = " " THEN Strip(SubSeq(s, 1, Len(s) - 1))
    ELSE s

\* hash_password: the SHA-256 digest of p, taken as free of collisions
HashPassword(p) == <<"sha256">> \o p

\* a password_hash that is NULL
NullHash == <<>>

\* self.current_user = None
NoUser == <<>>

\* the value of the Show Shift combobox that removes the filter, and the
\* current_shift_filter it gives (None)
AllShifts == "All"
NoFilter == "None"

\* the rows load_all puts in the milk-records table, for the filter and the date
\* of today
RecordsShown(milk, filter, today) ==
    IF filter \in {"Morning", "Evening"}
    THEN [r \in {x \in BagToSet(milk) : x.date = today /\ x.shift = filter}
            |-> milk[r]]
    ELSE milk

\* load_all on the DairyApp u: the milk-records table reloaded
LoadAll(u, milk, clock) ==
    [u EXCEPT !.records_tv = RecordsShown(milk, u.current_shift_filter, clock.date)]

\* the day the windows are worked in and the hour
Today == [month |-> 2, day |-> 20]
WorkingHour == 7

\* the program started with its database, logged in as admin at the working hour
InitSession ==
    /\ users = {[username |-> Admin, password_hash |-> HashPassword(Admin123)]}
    /\ now = [date |-> Today, hour |-> WorkingHour]
    /\ ui = LoadAll([screen |-> "main", current_user |-> Admin,
                     current_shift_filter |-> GetShiftForTime(now.hour),
                     records_tv |-> EmptyBag], milk_records, now)

-----------------------------------------------------------------------------
(* The Rate Table window and the rate lookup *)

RateCategories == {Cow, Buffalo}
RateFatEntries == {Num(3000), Num(3240), NonNumeric}
\* the SNF and Rate entries of a row
RateSnfRateEntries == {<<Num(8000), Num(30005)>>, <<Num(8500), Num(45500)>>}

QueryCategories == {Cow, Buffalo, LowerBuf, Empty}
QueryFats == {-4000, 3000, 3049, 3150, 9001}
QuerySnfs == {8000, 8300}

InitTables ==
    /\ rate_table = EmptyBag
    /\ farmers = {}
    /\ add_dialogs = EmptyBag
    /\ milk_records = EmptyBag
    /\ advances = EmptyBag
    /\ advance_deductions = EmptyBag
    /\ last = [op |-> "init"]
    /\ InitSession

\* rate_table_window.add_rate.do_add
AddRate(cat, f, s, r_v) ==
    /\ BagCardinality(rate_table) < MaxRates
    /\ IF IsNumeric(f) /\ IsNumeric(s) /\ IsNumeric(r_v)
       THEN /\ rate_table' = rate_table (+)
                  Row([category |-> cat, fat |-> Round1(f.val), snf |-> s.val,
                       rate |-> r_v.val])
            /\ last' = [op |-> "add_rate", ok |-> TRUE]
       ELSE /\ rate_table' = rate_table
            /\ last' = [op |-> "add_rate", ok |-> FALSE]
    /\ UNCHANGED <<farmers, add_dialogs, milk_records, advances, advance_deductions>>
    /\ UNCHANGED <<users, now, ui>>

\* rate_table_window.del_rate, on the selected row, with the answer to "Delete selected rate?"
DelRate(row, confirm) ==
    /\ BagIn(row, rate_table)
    /\ rate_table' = IF confirm THEN rate_table (-) Row(row) ELSE rate_table
    /\ last' = [op |-> "del_rate", ok |-> confirm]
    /\ UNCHANGED <<farmers, add_dialogs, milk_records, advances, advance_deductions>>
    /\ UNCHANGED <<users, now, ui>>

\* a call of find_rate_for (update_amount, quick_calculate)
FindRate(category, fat, snf) ==
    /\ \E r \in FindRateFor(rate_table, category, fat, snf) :
          last' = [op |-> "find_rate_for", category |-> category, fat |-> fat,
                   snf |-> snf, result |-> r]
    /\ UNCHANGED <<rate_table, farmers, add_dialogs, milk_records, advances,
                   advance_deductions>>
    /\ UNCHANGED <<users, now, ui>>

NextRate ==
    \/ \E cat \in RateCategories, f \in RateFatEntries, sr \in RateSnfRateEntries :
          AddRate(cat, f, sr[1], sr[2])
    \/ \E row \in BagToSet(rate_table), confirm \in BOOLEAN : DelRate(row, confirm)
    \/ \E category \in QueryCategories, fat \in QueryFats, snf \in QuerySnfs :
          FindRate(category, fat, snf)

SpecRate == InitTables /\ [][NextRate]_vars

-----------------------------------------------------------------------------
(* get_next_farmer_code and the Manage Farmers window *)

FarmerCodes == {f.farmer_code : f \in farmers}

\* "SELECT farmer_code FROM farmers ORDER BY farmer_code"
RECURSIVE SortedCodes(_)
SortedCodes(S) ==
    IF S = {} THEN << >>
    ELSE LET m == CHOOSE x \in S : \A y \in S : x <= y
         IN  <<m>> \o SortedCodes(S \ {m})

\* the loop of get_next_farmer_code from row i on, with n so far
RECURSIVE NextCodeLoop(_, _, _)
NextCodeLoop(rows, i, n) ==
    IF i > Len(rows) THEN n
    ELSE IF rows[i] = n THEN NextCodeLoop(rows, i + 1, n + 1)
    ELSE IF rows[i] > n THEN n
    ELSE NextCodeLoop(rows, i + 1, n)

\* a code generator that never reuses a gap: one past the highest code
GetNextFarmerCodeNoReuse(codes) ==
    IF codes = {} THEN 1 ELSE SortedCodes(codes)[Cardinality(codes)] + 1

GetNextFarmerCode(codes) == NextCodeLoop(SortedCodes(codes), 1, 1)

FarmerCategories == {Cow, Buffalo, Both}

\* manage_farmers_window.add_farmer: opens the dialog on a connection of its own
AddFarmer ==
    /\ BagCardinality(add_dialogs) < MaxDialogs
    /\ LET next_code == GetNextFarmerCode(FarmerCodes)
       IN  /\ add_dialogs' = add_dialogs (+)
                  Row([next_code |-> next_code, conn_open |-> TRUE])
           /\ last' = [op |-> "add_farmer", next_code |-> next_code]
    /\ UNCHANGED <<rate_table, farmers, milk_records, advances, advance_deductions>>
    /\ UNCHANGED <<users, now, ui>>

\* add_farmer.do_add: Save in the dialog d, with the Name entry filled or not
DoAdd(d, name_given, category) ==
    /\ BagIn(d, add_dialogs)
    /\ d.next_code <= MaxCode
    /\ IF ~name_given
       THEN \* "Name required"
            /\ UNCHANGED <<farmers, add_dialogs>>
            /\ last' = [op |-> "do_add", ok |-> FALSE, code |-> d.next_code]
       ELSE IF ~d.conn_open \/ d.next_code \in FarmerCodes
       THEN \* sqlite3.ProgrammingError on the closed connection, or
            \* sqlite3.IntegrityError on the primary key: conn.close(), dialog stays
            /\ farmers' = farmers
            /\ add_dialogs' = (add_dialogs (-) Row(d)) (+)
                  Row([next_code |-> d.next_code, conn_open |-> FALSE])
            /\ last' = [op |-> "do_add", ok |-> FALSE, code |-> d.next_code]
       ELSE /\ farmers' = farmers \cup
                  {[farmer_code |-> d.next_code, category |-> category]}
            /\ add_dialogs' = add_dialogs (-) Row(d)
            /\ last' = [op |-> "do_add", ok |-> TRUE, code |-> d.next_code]
    /\ UNCHANGED <<rate_table, milk_records, advances, advance_deductions>>
    /\ UNCHANGED <<users, now, ui>>

\* the user closes the Add Farmer dialog d without saving
CloseAddDialog(d) ==
    /\ BagIn(d, add_dialogs)
    /\ add_dialogs' = add_dialogs (-) Row(d)
    /\ last' = [op |-> "close_add_dialog"]
    /\ UNCHANGED <<rate_table, farmers, milk_records, advances, advance_deductions>>
    /\ UNCHANGED <<users, now, ui>>

\* delete_farmer as in the program's version 5.5: advance_deductions is left alone
DeleteFarmerKeepsDeductions(fcode, confirm) ==
    LET His(table) == {r \in BagToSet(table) : r.farmer_code = fcode}
    IN  /\ IF fcode \notin FarmerCodes \/ ~confirm
           THEN /\ UNCHANGED <<farmers, milk_records, advances>>
                /\ last' = [op |-> "delete_farmer", code |-> fcode, ok |-> FALSE]
           ELSE /\ milk_records' = DeleteWhere(milk_records, His(milk_records))
                /\ advances' = DeleteWhere(advances, His(advances))
                /\ farmers' = {f \in farmers : f.farmer_code # fcode}
                /\ last' = [op |-> "delete_farmer", code |-> fcode, ok |-> TRUE,
                            removed |-> CountWhere(milk_records, His(milk_records))
                                        + CountWhere(advances, His(advances))
                                        + CountWhere(advance_deductions, His(advance_deductions))]
        /\ UNCHANGED <<rate_table, add_dialogs, advance_deductions>>
        /\ UNCHANGED <<users, now>>
        /\ ui' = IF last'.ok THEN LoadAll(ui, milk_records', now) ELSE ui

\* manage_farmers_window.delete_farmer on the selected code fcode, with the
\* answer to "Delete farmer ... and ALL related records?"
DeleteFarmer(fcode, confirm) ==
    LET His(table) == {r \in BagToSet(table) : r.farmer_code = fcode}
    IN  /\ IF fcode \notin FarmerCodes
           THEN \* "Farmer not found"
                /\ UNCHANGED <<farmers, milk_records, advances, advance_deductions>>
                /\ last' = [op |-> "delete_farmer", code |-> fcode, ok |-> FALSE]
           ELSE IF ~confirm
           THEN /\ UNCHANGED <<farmers, milk_records, advances, advance_deductions>>
                /\ last' = [op |-> "delete_farmer", code |-> fcode, ok |-> FALSE]
           ELSE /\ milk_records' = DeleteWhere(milk_records, His(milk_records))
                /\ advances' = DeleteWhere(advances, His(advances))
                /\ advance_deductions' = DeleteWhere(advance_deductions, His(advance_deductions))
                /\ farmers' = {f \in farmers : f.farmer_code # fcode}
                /\ last' = [op |-> "delete_farmer", code |-> fcode, ok |-> TRUE,
                            removed |-> CountWhere(milk_records, His(milk_records))
                                        + CountWhere(advances, His(advances))
                                        + CountWhere(advance_deductions, His(advance_deductions))]
        /\ UNCHANGED <<rate_table, add_dialogs>>
        /\ UNCHANGED <<users, now>>
        /\ ui' = IF last'.ok THEN LoadAll(ui, milk_records', now) ELSE ui

\* the tables after the first n of delete_farmer's four DELETE statements
DeleteStatements(db, fcode, n) ==
    LET His(table) == {r \in BagToSet(table) : r.farmer_code = fcode}
    IN  [milk_records |-> IF n >= 1
                          THEN DeleteWhere(db.milk_records, His(db.milk_records))
                          ELSE db.milk_records,
         advances |-> IF n >= 2
                      THEN DeleteWhere(db.advances, His(db.advances))
                      ELSE db.advances,
         advance_deductions |-> IF n >= 3
                                THEN DeleteWhere(db.advance_deductions,
                                                 His(db.advance_deductions))
                                ELSE db.advance_deductions,
         farmers |-> IF n >= 4
                     THEN {f \in db.farmers : f.farmer_code # fcode}
                     ELSE db.farmers]

\* no statement of delete_farmer raises sqlite3.Error
NoError == 0

\* the commit, the statement after the four DELETEs
CommitStatement == 5

\* a connection that commits every statement as it is executed
DeleteFarmerTxAutocommit(db, fcode, failed_at) ==
    IF failed_at = NoError
    THEN DeleteStatements(db, fcode, 4)
    ELSE DeleteStatements(db, fcode, failed_at - 1)

\* the database file after delete_farmer's try block in which statement
\* failed_at raises sqlite3.Error: the DELETEs run in one transaction of the
\* connection, which is closed without commit in the except branch
DeleteFarmerTx(db, fcode, failed_at) ==
    IF failed_at = NoError
    THEN DeleteStatements(db, fcode, 4)
    ELSE db

\* manage_farmers_window.delete_farmer on the selected code fcode, confirmed,
\* when statement failed_at of the try block raises sqlite3.Error
DeleteFarmerDbError(fcode, failed_at) ==
    /\ fcode \in FarmerCodes
    /\ failed_at \in 1..CommitStatement
    /\ LET db == [milk_records |-> milk_records, advances |-> advances,
                  advance_deductions |-> advance_deductions, farmers |-> farmers]
           out == DeleteFarmerTx(db, fcode, failed_at)
       IN  /\ milk_records' = out.milk_records
           /\ advances' = out.advances
           /\ advance_deductions' = out.advance_deductions
           /\ farmers' = out.farmers
    /\ last' = [op |-> "delete_farmer", code |-> fcode, ok |-> FALSE,
                failed_at |-> failed_at]
    /\ UNCHANGED <<rate_table, add_dialogs, users, now, ui>>

NextFarmers ==
    \/ AddFarmer
    \/ \E d \in BagToSet(add_dialogs), name_given \in BOOLEAN,
          category \in FarmerCategories : DoAdd(d, name_given, category)
    \/ \E d \in BagToSet(add_dialogs) : CloseAddDialog(d)
    \/ \E fcode \in 1..MaxCode, confirm \in BOOLEAN : DeleteFarmer(fcode, confirm)

SpecFarmers == InitTables /\ [][NextFarmers]_vars

-----------------------------------------------------------------------------
(* Dates *)

\* A stored date 'YYYY-MM-DD' is [month, day], the months numbered from 1 on in
\* calendar order, so that comparing 'YYYY-MM' strings is comparing numbers.
\* A date entry is the text typed: the format it is in and the date it reads as.
DateFormats == {"%d/%m/%Y", "%d-%m-%Y", "%Y-%m-%d", "%Y/%m/%d"}

DateEntry(fmt, month, day) == [fmt |-> fmt, month |-> month, day |-> day]

\* normalize_date_input: the date, or ValueError
ValueError == [month |-> 0, day |-> 0]

NormalizeDateInput(d) ==
    IF d.fmt \in DateFormats /\ d.day >= 1
    THEN [month |-> d.month, day |-> d.day]
    ELSE ValueError

\* strftime('%Y-%m', date)
MonthOf(date) == date.month

\* up_to_month=None
NoMonth == 0

-----------------------------------------------------------------------------
(* Advances, deductions and the monthly bill *)

\* SUM(amount) over the rows of a table that are in the set rows
RECURSIVE SumAmount(_, _)
SumAmount(table, rows) ==
    IF rows = {} THEN 0
    ELSE LET r == CHOOSE x \in rows : TRUE
         IN  r.amount * table[r] + SumAmount(table, rows \ {r})

\* get_advance_balance on the tables adv and ded
GetAdvanceBalance(adv, ded, farmer_code, up_to_month) ==
    LET total_adv == SumAmount(adv, {r \in BagToSet(adv) : r.farmer_code = farmer_code})
        total_ded ==
            IF up_to_month # NoMonth
            THEN SumAmount(ded, {r \in BagToSet(ded) :
                     r.farmer_code = farmer_code /\ r.month < up_to_month})
            ELSE SumAmount(ded, {r \in BagToSet(ded) : r.farmer_code = farmer_code})
    IN  Round2(total_adv - total_ded)

\* the earnings of a farmer over all months
MonthlyEarningsAllMonths(milk, code, month) ==
    SumAmount(milk, {r \in BagToSet(milk) : r.farmer_code = code})

\* "SELECT IFNULL(SUM(amount),0) FROM milk_records WHERE farmer_code=? AND
\*  strftime('%Y-%m', date)=?"
MonthlyEarnings(milk, code, month) ==
    SumAmount(milk, {r \in BagToSet(milk) :
                        r.farmer_code = code /\ MonthOf(r.date) = month})

\* record_advance_popup.save_adv
SaveAdv(code, date_e, amount_e) ==
    LET date_db == NormalizeDateInput(date_e)
    IN  /\ BagCardinality(advances) < MaxAdvances
        /\ IF \/ ~IsNumeric(code)
              \/ date_db = ValueError
              \/ ~IsNumeric(amount_e)
           THEN /\ advances' = advances
                /\ last' = [op |-> "save_adv", ok |-> FALSE]
           ELSE IF amount_e.val < 0 \/ code.val \notin FarmerCodes
           THEN /\ advances' = advances
                /\ last' = [op |-> "save_adv", ok |-> FALSE]
           ELSE /\ advances' = advances (+)
                      Row([farmer_code |-> code.val, date |-> date_db,
                           amount |-> amount_e.val])
                /\ last' = [op |-> "save_adv", ok |-> TRUE]
        /\ UNCHANGED <<rate_table, farmers, add_dialogs, milk_records,
                       advance_deductions>>
        /\ UNCHANGED <<users, now>>
        /\ ui' = IF last'.ok THEN LoadAll(ui, milk_records', now) ELSE ui

\* generate_monthly_bill_popup.fetch_info
FetchInfo(code, month) ==
    /\ IF ~IsNumeric(code) \/ code.val \notin FarmerCodes
       THEN last' = [op |-> "fetch_info", ok |-> FALSE]
       ELSE LET earnings == MonthlyEarnings(milk_records, code.val, month)
                bal == GetAdvanceBalance(advances, advance_deductions, code.val, month)
            IN  last' = [op |-> "fetch_info", ok |-> TRUE, code |-> code.val,
                         month |-> month, earnings |-> earnings, bal |-> bal,
                         default_ded |-> Min(bal, earnings)]
    /\ UNCHANGED <<rate_table, farmers, add_dialogs, milk_records, advances,
                   advance_deductions>>
    /\ UNCHANGED <<users, now, ui>>

\* record_advance_deduction
RecordAdvanceDeduction(ded, farmer_code, month, amount) ==
    ded (+) Row([farmer_code |-> farmer_code, month |-> month, amount |-> amount])

\* generate_monthly_bill_popup.generate_and_save, with the answer to
\* "Deduction exceeds earnings. Continue?"
GenerateAndSave(code, month, ded_e, confirm) ==
    /\ BagCardinality(advance_deductions) < MaxDeductions
    /\ IF ~IsNumeric(code) \/ ~IsNumeric(ded_e)
       THEN /\ advance_deductions' = advance_deductions
            /\ last' = [op |-> "generate_and_save", ok |-> FALSE, code_e |-> code,
                        month |-> month, ded_e |-> ded_e, confirm |-> confirm]
       ELSE LET ded_amt == ded_e.val
                earnings == MonthlyEarnings(milk_records, code.val, month)
                prev_bal == GetAdvanceBalance(advances, advance_deductions,
                                              code.val, month)
            IN  IF \/ ded_amt < 0
                   \/ ded_amt > prev_bal
                   \/ (ded_amt > earnings /\ ~confirm)
                THEN /\ advance_deductions' = advance_deductions
                     /\ last' = [op |-> "generate_and_save", ok |-> FALSE,
                                 code_e |-> code, month |-> month, ded_e |-> ded_e,
                                 confirm |-> confirm]
                ELSE /\ advance_deductions' =
                            RecordAdvanceDeduction(advance_deductions, code.val,
                                                   month, ded_amt)
                     /\ last' = [op |-> "generate_and_save", ok |-> TRUE,
                                 code_e |-> code, confirm |-> confirm,
                                 code |-> code.val, month |-> month, ded_e |-> ded_e,
                                 earnings |-> earnings,
                                 net |-> Round2(earnings - ded_amt)]
    /\ UNCHANGED <<rate_table, farmers, add_dialogs, milk_records, advances>>
    /\ UNCHANGED <<users, now>>
    /\ ui' = IF last'.ok THEN LoadAll(ui, milk_records', now) ELSE ui

-----------------------------------------------------------------------------
(* record_milk_late *)

\* litres * rate cut off after 2 decimals
AmountTruncated(litres, rate) == ((litres * rate) \div 10000) * 10

\* round(litres * rate, 2), litres and rate in thousandths
Amount(litres, rate) == RoundHalfEven(litres * rate, 10000) * 10

MilkRow(code, date, shift, litres, fat, snf, rate, amount, category) ==
    [farmer_code |-> code, date |-> date, shift |-> shift, litres |-> litres,
     fat |-> fat, snf |-> snf, rate |-> rate, amount |-> amount,
     category |-> category]

\* the arguments of a call of record_milk_late
MilkArgs(farmer_code, date_str, shift, litres, fat, snf, category) ==
    [farmer_code |-> farmer_code, date_str |-> date_str, shift |-> shift,
     litres |-> litres, fat |-> fat, snf |-> snf, category |-> category]

\* record_milk_late that always inserts
RecordMilkLateInsertOnly(milk, rt, codes, a) ==
    LET date_db == NormalizeDateInput(a.date_str)
    IN  IF \/ date_db = ValueError
           \/ a.farmer_code \notin codes
           \/ ~IsNumeric(a.fat) \/ ~IsNumeric(a.snf) \/ ~IsNumeric(a.litres)
        THEN {[ok |-> FALSE, milk |-> milk]}
        ELSE IF a.fat.val < 0 \/ a.snf.val < 0 \/ a.litres.val < 0
        THEN {[ok |-> FALSE, milk |-> milk]}
        ELSE {[ok |-> TRUE,
               milk |-> milk (+) Row(MilkRow(a.farmer_code, date_db, a.shift,
                                    a.litres.val, a.fat.val, a.snf.val, rate,
                                    Amount(a.litres.val, rate), a.category))] :
                 rate \in FindRateFor(rt, a.category, a.fat.val, a.snf.val)}

\* record_milk_late that checks the sign of the values after it has written the row
RecordMilkLateWriteFirst(milk, rt, codes, a) ==
    LET date_db == NormalizeDateInput(a.date_str)
        numeric == IsNumeric(a.fat) /\ IsNumeric(a.snf) /\ IsNumeric(a.litres)
    IN  IF date_db = ValueError \/ a.farmer_code \notin codes \/ ~numeric
        THEN {[ok |-> FALSE, milk |-> milk]}
        ELSE {[ok |-> ~(a.fat.val < 0 \/ a.snf.val < 0 \/ a.litres.val < 0),
               milk |-> milk (+) Row(MilkRow(a.farmer_code, date_db, a.shift,
                                    a.litres.val, a.fat.val, a.snf.val, rate,
                                    Amount(a.litres.val, rate), a.category))] :
                 rate \in FindRateFor(rt, a.category, a.fat.val, a.snf.val)}

\* record_milk_late called with the arguments a on the tables milk (milk_records),
\* rt (rate_table) and the farmer codes: the possible outcomes
\* [ok: the value returned, milk: the table after]
RecordMilkLate(milk, rt, codes, a) ==
    LET date_db == NormalizeDateInput(a.date_str)
        key == {r \in BagToSet(milk) : /\ r.farmer_code = a.farmer_code
                                       /\ r.date = date_db
                                       /\ r.shift = a.shift
                                       /\ r.category = a.category}
    IN  IF date_db = ValueError
        THEN {[ok |-> FALSE, milk |-> milk]}
        ELSE IF a.farmer_code \notin codes
        THEN {[ok |-> FALSE, milk |-> milk]}
        ELSE IF ~IsNumeric(a.fat) \/ ~IsNumeric(a.snf) \/ ~IsNumeric(a.litres)
        THEN {[ok |-> FALSE, milk |-> milk]}
        ELSE IF a.fat.val < 0 \/ a.snf.val < 0 \/ a.litres.val < 0
        THEN {[ok |-> FALSE, milk |-> milk]}
        ELSE {LET amount == Amount(a.litres.val, rate)
                  row == MilkRow(a.farmer_code, date_db, a.shift, a.litres.val,
                                 a.fat.val, a.snf.val, rate, amount, a.category)
                  ex == CountWhere(milk, key)
              IN  IF ex > 0
                  THEN [ok |-> TRUE,
                        milk |-> DeleteWhere(milk, key) (+) (row :> ex)]
                  ELSE [ok |-> TRUE, milk |-> milk (+) Row(row)] :
                rate \in FindRateFor(rt, a.category, a.fat.val, a.snf.val)}

\* a call record_milk_late(a): the database after it and the value it returns
CallRecordMilkLate(a) ==
    /\ \E out \in RecordMilkLate(milk_records, rate_table, FarmerCodes, a) :
          /\ BagCardinality(out.milk) <= MaxMilk
          /\ milk_records' = out.milk
          /\ last' = [op |-> "record_milk_late", ok |-> out.ok, args |-> a]
    /\ UNCHANGED <<rate_table, farmers, add_dialogs, advances, advance_deductions>>
    /\ UNCHANGED <<users, now>>

\* record_missed_milk.save_record on what the form holds: the texts are
\* converted, then record_milk_late is called
SaveMissedMilk(farmer_code, date_str, shift, litres, fat, snf, category) ==
    IF /\ IsNumeric(farmer_code)
       /\ IsNumeric(litres) /\ IsNumeric(fat) /\ IsNumeric(snf)
    THEN /\ CallRecordMilkLate(MilkArgs(farmer_code.val, date_str, shift, litres,
                                        fat, snf, category))
         /\ ui' = IF last'.ok THEN LoadAll(ui, milk_records', now) ELSE ui
    ELSE /\ last' = [op |-> "save_record", ok |-> FALSE]
         /\ UNCHANGED <<rate_table, farmers, add_dialogs, milk_records, advances,
                        advance_deductions, users, now, ui>>

-----------------------------------------------------------------------------
(* Quick entry *)

\* no category combobox in the quick-entry form
NoWidget == <<"-">>

\* quick_save_record on what the quick-entry form holds: widget is the category
\* combobox (its value, or NoWidget), hour the clock when Shift is left empty
QuickSaveRecord(code_e, widget, date_e, shift_e, hour, litres_e, fat_e, snf_e, rate_e) ==
    LET Fail == /\ milk_records' = milk_records
                /\ last' = [op |-> "quick_save_record", ok |-> FALSE]
        farmer_cat == (CHOOSE f \in farmers : f.farmer_code = code_e.val).category
        category == IF farmer_cat = Both
                    THEN (IF widget = Empty THEN Cow ELSE widget)
                    ELSE farmer_cat
        date_db == NormalizeDateInput(date_e)
        shift == IF shift_e = "" THEN GetShiftForTime(hour) ELSE shift_e
        litres == litres_e.val
        fat == Round1(fat_e.val)
        snf == IF snf_e = Blank THEN 8000 ELSE snf_e.val
    IN  /\ BagCardinality(milk_records) < MaxMilk
        /\ IF ~IsNumeric(code_e) \/ code_e.val \notin FarmerCodes
           THEN Fail
           ELSE IF farmer_cat = Both /\ widget = NoWidget
           THEN Fail
           ELSE IF date_db = ValueError
           THEN Fail
           ELSE IF \/ ~IsNumeric(litres_e) \/ ~IsNumeric(fat_e)
                   \/ (snf_e # Blank /\ ~IsNumeric(snf_e))
           THEN Fail
           ELSE IF litres < 0 \/ fat < 0 \/ snf < 0
           THEN Fail
           ELSE \E rate \in IF IsNumeric(rate_e) THEN {rate_e.val}
                            ELSE FindRateFor(rate_table, category, fat, snf) :
                   /\ milk_records' = milk_records (+)
                         Row(MilkRow(code_e.val, date_db, shift, litres, fat, snf,
                                     rate, Amount(litres, rate), category))
                   /\ last' = [op |-> "quick_save_record", ok |-> TRUE]
        /\ UNCHANGED <<rate_table, farmers, add_dialogs, advances, advance_deductions>>
        /\ UNCHANGED <<users, now>>
        /\ ui' = IF last'.ok THEN LoadAll(ui, milk_records', now) ELSE ui

\* quick_calculate on what the quick-entry form holds: the contents of the Rate
\* entry after it, rate_e being its contents before
QuickCalculateRate(rt, fs, code_e, widget, litres_e, fat_e, snf_e, rate_e) ==
    LET numeric(e) == e = Blank \/ IsNumeric(e)
        fat == IF fat_e = Blank THEN 0 ELSE fat_e.val
        snf == IF snf_e = Blank THEN 8000 ELSE snf_e.val
        found == {f \in fs : IsNumeric(code_e) /\ f.farmer_code = code_e.val}
        cat == IF found = {} THEN Cow
               ELSE LET c == (CHOOSE f \in found : TRUE).category
                    IN  IF c = Both
                        THEN (IF widget = NoWidget THEN Cow ELSE widget)
                        ELSE c
    IN  IF ~numeric(fat_e) \/ ~numeric(snf_e) \/ ~numeric(litres_e)
        THEN {rate_e}
        ELSE {Num(Round2(rate)) : rate \in FindRateFor(rt, cat, Round1(fat), snf)}

\* the Calculate button
QuickCalculate(code_e, widget, litres_e, fat_e, snf_e) ==
    /\ \E e \in QuickCalculateRate(rate_table, farmers, code_e, widget, litres_e,
                                   fat_e, snf_e, Blank) :
          last' = [op |-> "quick_calculate", ok |-> (e # Blank), fat_e |-> fat_e,
                   e_rate |-> e]
    /\ UNCHANGED <<rate_table, farmers, add_dialogs, milk_records, advances,
                   advance_deductions, users, now, ui>>

\* _confirm_and_save, with the answer to "Save this milk record?"
ConfirmAndSave(confirm, code_e, widget, date_e, shift_e, hour, litres_e, fat_e, snf_e, rate_e) ==
    IF ~confirm
    THEN /\ last' = [op |-> "confirm_and_save", ok |-> FALSE]
         /\ UNCHANGED <<rate_table, farmers, add_dialogs, milk_records, advances,
                        advance_deductions, users, now, ui>>
    ELSE \E e \in QuickCalculateRate(rate_table, farmers, code_e, widget, litres_e,
                                     fat_e, snf_e, rate_e) :
            QuickSaveRecord(code_e, widget, date_e, shift_e, hour, litres_e, fat_e,
                            snf_e, e)

-----------------------------------------------------------------------------
(* The consolidated monthly report *)

\* the page generate_consolidated_monthly_report writes for farmer f and the
\* idx-th of the farmer's categories, with all_adv_total the farmer's advances
\* of the month
ReportPage(milk, f, idx, category, month_str, all_adv_total) ==
    LET rows == {r \in BagToSet(milk) : /\ r.farmer_code = f.farmer_code
                                        /\ r.category = category
                                        /\ MonthOf(r.date) = month_str}
        is_primary_category == (idx = 1)
        total_amt == SumAmount(milk, rows)
        adv_total == IF is_primary_category THEN all_adv_total ELSE 0
    IN  [farmer_code |-> f.farmer_code, category |-> category,
         records |-> CountWhere(milk, rows), total_amt |-> total_amt,
         adv_total |-> adv_total, net_pay |-> total_amt - adv_total]

\* the pages of the report of a month: no page for a category without records
ReportPages(fs, milk, adv, month_str) ==
    UNION {LET categories == IF Lower(f.category) = Lower(Both)
                             THEN <<Cow, Buffalo>>
                             ELSE <<f.category>>
               all_adv == {a \in BagToSet(adv) : /\ a.farmer_code = f.farmer_code
                                                 /\ MonthOf(a.date) = month_str}
               all_adv_total == SumAmount(adv, all_adv)
               page(idx) == ReportPage(milk, f, idx, categories[idx], month_str,
                                       all_adv_total)
           IN  {page(idx) : idx \in {i \in DOMAIN categories : page(i).records > 0}} :
           f \in fs}

\* generate_consolidated_monthly_report(month_str)
GenerateConsolidatedMonthlyReport(month_str) ==
    /\ IF farmers = {}
       THEN last' = [op |-> "monthly_report", ok |-> FALSE]
       ELSE last' = [op |-> "monthly_report", ok |-> TRUE, month |-> month_str,
                     pages |-> ReportPages(farmers, milk_records, advances, month_str)]
    /\ UNCHANGED <<rate_table, farmers, add_dialogs, milk_records, advances,
                   advance_deductions, users, now, ui>>

-----------------------------------------------------------------------------
(* Start, login and the dashboard *)

\* the sample slabs of init_db_and_migrate: Cow 3.0 to 6.0 and Buffalo 5.0 to
\* 11.0 in steps of 0.1, all at SNF 8.0
SampleRates ==
    SetToBag({[category |-> Cow, fat |-> f * 100, snf |-> 8000,
               rate |-> Round2(30000 + (f * 100 - 3000) * 5)] : f \in 30..60}
             \cup
             {[category |-> Buffalo, fat |-> f * 100, snf |-> 8000,
               rate |-> Round2(45000 + (f * 100 - 5000) * 5)] : f \in 50..110})

\* init_db_and_migrate that sets the admin password anew at every start
InitDbAndMigrateResetsAdmin(us, rt) ==
    [users |-> {u \in us : u.username # Admin}
                 \cup {[username |-> Admin, password_hash |-> HashPassword(Admin123)]},
     rate_table |-> IF rt = EmptyBag THEN SampleRates ELSE rt]

\* init_db_and_migrate on the tables users and rate_table: the tables after it
InitDbAndMigrate(us, rt) ==
    LET default == [username |-> Admin, password_hash |-> HashPassword(Admin123)]
        admin == {u \in us : u.username = Admin}
    IN  [users |-> IF us = {} THEN {default}
                   ELSE IF admin = {} THEN us \cup {default}
                   ELSE IF \E u \in admin : u.password_hash = NullHash
                   THEN (us \ admin) \cup {default}
                   ELSE us,
         rate_table |-> IF rt = EmptyBag THEN SampleRates ELSE rt]

\* the program is started: DairyApp.__init__
Start ==
    /\ LET db == InitDbAndMigrate(users, rate_table)
       IN  users' = db.users /\ rate_table' = db.rate_table
    /\ ui' = [screen |-> "welcome", current_user |-> NoUser,
              current_shift_filter |-> GetShiftForTime(now.hour),
              records_tv |-> EmptyBag]
    /\ add_dialogs' = EmptyBag
    /\ last' = [op |-> "start", hour |-> now.hour]
    /\ UNCHANGED <<farmers, milk_records, advances, advance_deductions, now>>

\* create_login_ui, from the Continue button of the welcome screen
CreateLoginUi ==
    /\ ui.screen = "welcome"
    /\ ui' = [ui EXCEPT !.screen = "login"]
    /\ last' = [op |-> "create_login_ui"]
    /\ UNCHANGED <<rate_table, farmers, add_dialogs, milk_records, advances,
                   advance_deductions, users, now>>

\* do_login that opens the main screen for every user on record
DoLoginAnyPassword(username_e, password_e) ==
    LET username == Strip(username_e)
        password == Strip(password_e)
    IN  /\ ui.screen = "login"
        /\ IF /\ username # <<>> /\ password # <<>>
              /\ \E row \in users : row.username = username
           THEN /\ ui' = LoadAll([ui EXCEPT !.screen = "main",
                                            !.current_user = username],
                                 milk_records, now)
                /\ last' = [op |-> "do_login", ok |-> TRUE,
                            username_e |-> username_e, password_e |-> password_e]
           ELSE /\ ui' = ui
                /\ last' = [op |-> "do_login", ok |-> FALSE,
                            username_e |-> username_e, password_e |-> password_e]
        /\ UNCHANGED <<rate_table, farmers, add_dialogs, milk_records, advances,
                       advance_deductions, users, now>>

\* do_login on what the Username and Password entries hold
DoLogin(username_e, password_e) ==
    LET username == Strip(username_e)
        password == Strip(password_e)
    IN  /\ ui.screen = "login"
        /\ IF username = <<>> \/ password = <<>>
           THEN /\ ui' = ui
                /\ last' = [op |-> "do_login", ok |-> FALSE,
                            username_e |-> username_e, password_e |-> password_e]
           ELSE IF \E row \in users : /\ row.username = username
                                      /\ row.password_hash = HashPassword(password)
           THEN /\ ui' = LoadAll([ui EXCEPT !.screen = "main",
                                            !.current_user = username],
                                 milk_records, now)
                /\ last' = [op |-> "do_login", ok |-> TRUE,
                            username_e |-> username_e, password_e |-> password_e]
           ELSE /\ ui' = ui
                /\ last' = [op |-> "do_login", ok |-> FALSE,
                            username_e |-> username_e, password_e |-> password_e]
        /\ UNCHANGED <<rate_table, farmers, add_dialogs, milk_records, advances,
                       advance_deductions, users, now>>

\* change_password_popup.do_change on the three entries
DoChange(cur_e, new_e, conf_e) ==
    LET curp == Strip(cur_e)
        newp == Strip(new_e)
        conf == Strip(conf_e)
        row == {u \in users : u.username = ui.current_user}
    IN  /\ ui.screen = "main"
        /\ IF curp = <<>> \/ newp = <<>> \/ conf = <<>>
           THEN users' = users /\ last' = [op |-> "do_change", ok |-> FALSE]
           ELSE IF newp # conf
           THEN users' = users /\ last' = [op |-> "do_change", ok |-> FALSE]
           ELSE IF row = {} \/ \E u \in row : u.password_hash # HashPassword(curp)
           THEN users' = users /\ last' = [op |-> "do_change", ok |-> FALSE]
           ELSE /\ users' = (users \ row) \cup
                      {[username |-> ui.current_user,
                        password_hash |-> HashPassword(newp)]}
                /\ last' = [op |-> "do_change", ok |-> TRUE]
        /\ UNCHANGED <<rate_table, farmers, add_dialogs, milk_records, advances,
                       advance_deductions, now, ui>>

\* on_shift_filter_change with the value val chosen in the Show Shift combobox
OnShiftFilterChange(val) ==
    /\ ui.screen = "main"
    /\ ui' = LoadAll([ui EXCEPT !.current_shift_filter =
                         IF val \in {"Morning", "Evening"} THEN val ELSE NoFilter],
                     milk_records, now)
    /\ last' = [op |-> "on_shift_filter_change"]
    /\ UNCHANGED <<rate_table, farmers, add_dialogs, milk_records, advances,
                   advance_deductions, users, now>>

\* start_new_shift, with the answer to "Start new shift?"
StartNewShift(confirm) ==
    /\ ui.screen = "main"
    /\ IF confirm
       THEN /\ ui' = LoadAll([ui EXCEPT !.current_shift_filter =
                                 GetShiftForTime(now.hour)], milk_records, now)
            /\ last' = [op |-> "start_new_shift", ok |-> TRUE, hour |-> now.hour]
       ELSE /\ ui' = ui
            /\ last' = [op |-> "start_new_shift", ok |-> FALSE, hour |-> now.hour]
    /\ UNCHANGED <<rate_table, farmers, add_dialogs, milk_records, advances,
                   advance_deductions, users, now>>

\* sort_records, from a click on the column header col: every milk record,
\* ordered by the column
SortRecords(col) ==
    /\ ui.screen = "main"
    /\ ui' = [ui EXCEPT !.records_tv = milk_records]
    /\ last' = [op |-> "sort_records", col |-> col]
    /\ UNCHANGED <<rate_table, farmers, add_dialogs, milk_records, advances,
                   advance_deductions, users, now>>

\* the date after d
NextDay(d) == [month |-> d.month, day |-> d.day + 1]

\* d1 is a later date than d2
DateAfter(d1, d2) ==
    d1.month > d2.month \/ (d1.month = d2.month /\ d1.day > d2.day)

\* the clock moves on by h hours
Tick(h) ==
    /\ now.date.day < Today.day + MaxDays
    /\ now' = [date |-> IF now.hour + h >= 24 THEN NextDay(now.date) ELSE now.date,
               hour |-> (now.hour + h) % 24]
    /\ last' = [op |-> "tick"]
    /\ UNCHANGED <<rate_table, farmers, add_dialogs, milk_records, advances,
                   advance_deductions, users, ui>>

-----------------------------------------------------------------------------
(* Farmers with their records: add, record, bill, delete *)

RecordCodes == {1, 2}
RecordDate == DateEntry("%d/%m/%Y", 1, 15)
RecordAmount == Num(100000)

NextFarmerRecords ==
    \/ add_dialogs = EmptyBag /\ AddFarmer
    \/ \E d \in BagToSet(add_dialogs) : d.next_code \in RecordCodes /\ DoAdd(d, TRUE, Cow)
    \/ \E code \in RecordCodes : SaveAdv(Num(code), RecordDate, RecordAmount)
    \/ \E code \in RecordCodes, ded_e \in {Num(0), RecordAmount} :
          GenerateAndSave(Num(code), 1, ded_e, TRUE)
    \/ \E code \in RecordCodes :
          SaveMissedMilk(Num(code), RecordDate, "Morning", Num(1000), Num(3000),
                         Num(8000), Cow)
    \/ \E fcode \in RecordCodes, confirm \in BOOLEAN : DeleteFarmer(fcode, confirm)

SpecFarmerRecords == InitTables /\ [][NextFarmerRecords]_vars

\* the same, with database errors in Delete Farmer
NextDeleteFarmer ==
    \/ NextFarmerRecords
    \/ \E fcode \in RecordCodes, failed_at \in 1..CommitStatement :
          DeleteFarmerDbError(fcode, failed_at)

SpecDeleteFarmer == InitTables /\ [][NextDeleteFarmer]_vars

-----------------------------------------------------------------------------
(* The advance ledger and the monthly bill of two farmers with milk on record *)

LedgerCodes == {Num(1), Num(2), Num(3), NonNumeric}
LedgerMonths == {1, 2}
AdvanceDates == {DateEntry("%d/%m/%Y", 1, 10), DateEntry("%Y-%m-%d", 2, 10),
                 DateEntry("10.01.2025", 1, 10)}
AdvanceAmounts == {Num(100000), Num(-100000), NonNumeric}
DeductionEntries == {Num(60004), Num(-60004), NonNumeric}

\* milk recorded for farmers 1 and 2: the rows record_milk_late writes on the slab
\* Cow 3.0 -> 30.00 and, for Buffalo, on the formula at fat 5.0
LedgerMilk(litres) ==
    LET cow(code, month, l) ==
            MilkRow(code, [month |-> month, day |-> 5], "Morning", l, 3000, 8000,
                    30000, Amount(l, 30000), Cow)
        buffalo(code, month, l) ==
            MilkRow(code, [month |-> month, day |-> 5], "Evening", l, 5000, 8000,
                    45000, Amount(l, 45000), Buffalo)
    IN  Row(cow(1, 1, litres)) (+) Row(buffalo(1, 1, 1000)) (+) Row(cow(1, 2, 1000))
        (+) Row(cow(2, 1, 1000))

InitLedger ==
    /\ rate_table = Row([category |-> Cow, fat |-> 3000, snf |-> 8000, rate |-> 30000])
    /\ farmers = {[farmer_code |-> 1, category |-> Cow],
                  [farmer_code |-> 2, category |-> Cow]}
    /\ add_dialogs = EmptyBag
    /\ \E litres \in {2505, 4000} : milk_records = LedgerMilk(litres)
    /\ advances = EmptyBag
    /\ advance_deductions = EmptyBag
    /\ last = [op |-> "init"]
    /\ InitSession

NextLedger ==
    \/ \E code \in LedgerCodes, date_e \in AdvanceDates, amount_e \in AdvanceAmounts :
          SaveAdv(code, date_e, amount_e)
    \/ \E code \in LedgerCodes, month \in LedgerMonths : FetchInfo(code, month)
    \/ \E code \in LedgerCodes, month \in LedgerMonths, ded_e \in DeductionEntries,
          confirm \in BOOLEAN : GenerateAndSave(code, month, ded_e, confirm)

SpecLedger == InitLedger /\ [][NextLedger]_vars

-----------------------------------------------------------------------------
(* Milk of two farmers recorded late and by quick entry, on a two-slab rate table *)

MilkCodes == {Num(1), Num(2)}
MilkDates == {DateEntry("%d/%m/%Y", 1, 5), DateEntry("%Y-%m-%d", 1, 5)}
MilkLitres == {Num(1000), Num(2505)}
MilkFats == {Num(3000), Num(3450)}

\* what else the Record Missed Milk form is saved with: the evening shift, a
\* farmer not on record, a text for the code, a date in no format, negative litres
OtherForms ==
    LET d == DateEntry("%d/%m/%Y", 1, 5)
    IN  {<<Num(1), d, "Evening", Num(1000)>>,
         <<Num(3), d, "Morning", Num(1000)>>,
         <<NonNumeric, d, "Morning", Num(1000)>>,
         <<Num(1), DateEntry("5 Jan", 1, 5), "Morning", Num(1000)>>,
         <<Num(1), d, "Morning", Num(-1000)>>}

\* calls of record_milk_late that the forms do not make: texts for numbers,
\* a negative FAT or SNF, the other category
DirectCalls ==
    LET d == DateEntry("%d/%m/%Y", 1, 5)
    IN  {MilkArgs(1, d, "Morning", NonNumeric, Num(3000), Num(8000), Cow),
         MilkArgs(1, d, "Morning", Num(1000), NonNumeric, Num(8000), Cow),
         MilkArgs(1, d, "Morning", Num(1000), Num(3000), NonNumeric, Cow),
         MilkArgs(1, d, "Morning", Num(1000), Num(-3000), Num(8000), Cow),
         MilkArgs(1, d, "Morning", Num(1000), Num(3000), Num(-8000), Cow),
         MilkArgs(1, d, "Morning", Num(1000), Num(3000), Num(8000), Buffalo)}

InitMilk ==
    /\ rate_table =
          Row([category |-> Cow, fat |-> 3000, snf |-> 8000, rate |-> 30000])
          (+) Row([category |-> Cow, fat |-> 3400, snf |-> 8000, rate |-> 32250])
    /\ farmers = {[farmer_code |-> 1, category |-> Cow],
                  [farmer_code |-> 2, category |-> Both]}
    /\ add_dialogs = EmptyBag
    /\ milk_records = EmptyBag
    /\ advances = EmptyBag
    /\ advance_deductions = EmptyBag
    /\ last = [op |-> "init"]
    /\ InitSession

NextMilk ==
    \/ \E code \in MilkCodes, d \in MilkDates, l \in MilkLitres, f \in MilkFats :
          SaveMissedMilk(code, d, "Morning", l, f, Num(8000), Cow)
    \/ \E o \in OtherForms :
          SaveMissedMilk(o[1], o[2], o[3], o[4], Num(3000), Num(8000), Cow)
    \/ \E a \in DirectCalls : CallRecordMilkLate(a) /\ ui' = ui
    \/ \E code \in {Num(1), Num(2), Blank}, hour \in {7, 20} :
          QuickSaveRecord(code, NoWidget, DateEntry("%d-%m-%Y", 1, 5), "", hour,
                          Num(1000), Num(3000), Blank, Num(31000))

SpecMilk == InitMilk /\ [][NextMilk]_vars

-----------------------------------------------------------------------------
(* The program started, logged in to and restarted on the database files it may
   find, over one day *)

Ram == <<"r", "a", "m">>
Secret == <<"p", "w">>

\* the users table of the database file found at the first start
InstalledUsers ==
    {{},
     {[username |-> Admin, password_hash |-> NullHash]},
     {[username |-> Ram, password_hash |-> HashPassword(Secret)]},
     {[username |-> Admin, password_hash |-> HashPassword(Secret)],
      [username |-> Ram, password_hash |-> NullHash]}}

\* the rate_table of the database file found at the first start
InstalledRates ==
    {EmptyBag, Row([category |-> Cow, fat |-> 3000, snf |-> 8000, rate |-> 30005])}

UsernameEntries == {<<>>, Admin, <<" ">> \o Admin, Ram}
PasswordEntries == {<<>>, <<" ">>, Admin123, Admin123 \o <<" ">>, Secret}

InitInstalled ==
    /\ rate_table \in InstalledRates
    /\ users \in InstalledUsers
    /\ farmers = {}
    /\ add_dialogs = EmptyBag
    /\ milk_records = EmptyBag
    /\ advances = EmptyBag
    /\ advance_deductions = EmptyBag
    /\ last = [op |-> "init"]
    /\ now = [date |-> Today, hour |-> 0]
    /\ ui = [screen |-> "closed", current_user |-> NoUser,
             current_shift_filter |-> NoFilter, records_tv |-> EmptyBag]

NextSession ==
    \/ Start
    \/ CreateLoginUi
    \/ \E username_e \in UsernameEntries, password_e \in PasswordEntries :
          DoLogin(username_e, password_e)
    \/ \E cur_e \in {Admin123, Secret}, new_e \in {Secret, <<>>},
          conf_e \in {Secret, Admin123} : DoChange(cur_e, new_e, conf_e)
    \/ \E row \in BagToSet(rate_table) :
          /\ ui.screen = "main"
          /\ BagCardinality(rate_table) <= MaxRates
          /\ DelRate(row, TRUE)
    \/ Tick(1)

SpecSession == InitInstalled /\ [][NextSession]_vars

-----------------------------------------------------------------------------
(* The dashboard over two days: milk saved for one farmer, the shift filter, the
   sort by a column, restarts *)

\* dates typed in the forms: today, the day before, two days ahead
DashboardDates ==
    {DateEntry("%d/%m/%Y", Today.month, Today.day),
     DateEntry("%d/%m/%Y", Today.month, Today.day - 1),
     DateEntry("%d/%m/%Y", Today.month, Today.day + 2)}

InitDashboard ==
    /\ rate_table = Row([category |-> Cow, fat |-> 3000, snf |-> 8000, rate |-> 30000])
    /\ farmers = {[farmer_code |-> 1, category |-> Cow]}
    /\ add_dialogs = EmptyBag
    /\ milk_records = EmptyBag
    /\ advances = EmptyBag
    /\ advance_deductions = EmptyBag
    /\ last = [op |-> "init"]
    /\ InitSession

NextDashboard ==
    \/ Start
    \/ CreateLoginUi
    \/ DoLogin(Admin, Admin123)
    \/ \E shift_e \in {"", "Evening"} :
          /\ ui.screen = "main"
          /\ QuickSaveRecord(Num(1), NoWidget,
                             DateEntry("%d/%m/%Y", Today.month, Today.day), shift_e,
                             now.hour, Num(1000), Num(3000), Blank, Blank)
    \/ \E d \in DashboardDates, shift \in {"Morning", "Evening"} :
          /\ ui.screen = "main"
          /\ SaveMissedMilk(Num(1), d, shift, Num(1000), Num(3000), Num(8000), Cow)
    \/ \E val \in {"Morning", "Evening", AllShifts} : OnShiftFilterChange(val)
    \/ \E confirm \in BOOLEAN : StartNewShift(confirm)
    \/ \E col \in {"date", "amount"} : SortRecords(col)
    \/ Tick(9)

SpecDashboard == InitDashboard /\ [][NextDashboard]_vars

-----------------------------------------------------------------------------
(* Milk of one farmer saved while the rate table is edited *)

InitAmounts ==
    /\ rate_table = EmptyBag
    /\ farmers = {[farmer_code |-> 1, category |-> Cow]}
    /\ add_dialogs = EmptyBag
    /\ milk_records = EmptyBag
    /\ advances = EmptyBag
    /\ advance_deductions = EmptyBag
    /\ last = [op |-> "init"]
    /\ InitSession

NextAmounts ==
    \/ \E f \in {Num(3000), Num(3440)}, sr \in RateSnfRateEntries :
          AddRate(Cow, f, sr[1], sr[2])
    \/ \E row \in BagToSet(rate_table), confirm \in BOOLEAN : DelRate(row, confirm)
    \/ \E l \in MilkLitres, f \in {Num(3000), Num(3440)} :
          SaveMissedMilk(Num(1), DateEntry("%d/%m/%Y", 1, 5), "Morning", l, f,
                         Num(8000), Cow)
    \/ \E f \in {Num(3440), NonNumeric}, rate_e \in {Blank, Num(31007), NonNumeric} :
          QuickSaveRecord(Num(1), NoWidget, DateEntry("%d/%m/%Y", 1, 5), "",
                          now.hour, Num(2505), f, Blank, rate_e)

SpecAmounts == InitAmounts /\ [][NextAmounts]_vars

-----------------------------------------------------------------------------
(* The monthly report of a 'Both' farmer and a 'Cow' farmer *)

ReportMonths == {1, 2}

InitReport ==
    /\ rate_table = Row([category |-> Cow, fat |-> 3000, snf |-> 8000, rate |-> 30000])
    /\ farmers = {[farmer_code |-> 1, category |-> Both],
                  [farmer_code |-> 2, category |-> Cow]}
    /\ add_dialogs = EmptyBag
    /\ milk_records = EmptyBag
    /\ advances = EmptyBag
    /\ advance_deductions = EmptyBag
    /\ last = [op |-> "init"]
    /\ InitSession

NextReport ==
    \/ \E f \in farmers, month \in ReportMonths, category \in {Cow, Buffalo} :
          /\ f.category = Both \/ category = f.category
          /\ SaveMissedMilk(Num(f.farmer_code), DateEntry("%d/%m/%Y", month, 5),
                            "Morning", Num(2505), Num(3000), Num(8000), category)
    \/ \E f \in farmers, month \in ReportMonths :
          SaveAdv(Num(f.farmer_code), DateEntry("%d/%m/%Y", month, 10), Num(50000))
    \/ \E fcode \in FarmerCodes : DeleteFarmer(fcode, TRUE)
    \/ \E month \in ReportMonths : GenerateConsolidatedMonthlyReport(month)

SpecReport == InitReport /\ [][NextReport]_vars

-----------------------------------------------------------------------------
(* The quick-entry form of a farmer, with Calculate, on an edited rate table *)

QuickFats == {Num(3000), Num(3440)}
QuickDate == DateEntry("%d/%m/%Y", 1, 5)

InitQuickEntry ==
    /\ rate_table = Row([category |-> Cow, fat |-> 3000, snf |-> 8000, rate |-> 30000])
                    (+) Row([category |-> Cow, fat |-> 3400, snf |-> 8000, rate |-> 32000])
    /\ farmers = {[farmer_code |-> 1, category |-> Cow]}
    /\ add_dialogs = EmptyBag
    /\ milk_records = EmptyBag
    /\ advances = EmptyBag
    /\ advance_deductions = EmptyBag
    /\ last = [op |-> "init"]
    /\ InitSession

NextQuickEntry ==
    \/ \E fat_e \in QuickFats \cup {NonNumeric} :
          QuickCalculate(Num(1), NoWidget, Num(2505), fat_e, Blank)
    \* Save Record with the rate Calculate left in the Rate entry
    \/ /\ last.op = "quick_calculate"
       /\ \E fat_e \in QuickFats :
             QuickSaveRecord(Num(1), NoWidget, QuickDate, "", now.hour, Num(2505),
                             fat_e, Blank, last.e_rate)
    \* Save Record with the Rate entry empty or holding a text
    \/ \E fat_e \in QuickFats, rate_e \in {Blank, NonNumeric} :
          QuickSaveRecord(Num(1), NoWidget, QuickDate, "", now.hour, Num(2505),
                          fat_e, Blank, rate_e)
    \/ \E confirm \in BOOLEAN, fat_e \in QuickFats, rate_e \in {Blank, Num(31007)} :
          ConfirmAndSave(confirm, Num(1), NoWidget, QuickDate, "", now.hour,
                         Num(2505), fat_e, Blank, rate_e)
    \/ \E f \in QuickFats : AddRate(Cow, f, Num(8000), Num(30005))
    \/ \E row \in BagToSet(rate_table), confirm \in BOOLEAN : DelRate(row, confirm)

SpecQuickEntry == InitQuickEntry /\ [][NextQuickEntry]_vars

-----------------------------------------------------------------------------
(* Claims about find_rate_for, checked under SpecRate *)

IsFindRate == last.op = "find_rate_for"

\* the rows of the queried category whose fat is the queried fat rounded to one decimal
ExactRows == {i \in BagToSet(rate_table) :
                 i.category = last.category /\ i.fat = Round1(last.fat)}

CategoryRows == {i \in BagToSet(rate_table) : i.category = last.category}

\* C1: when a row of the category has the fat rounded to one decimal, the result
\* is the rate, rounded to 2 decimals, of such a row that minimises |row.snf - snf|.
C1_ExactFatNearestSnf ==
    (IsFindRate /\ ExactRows # {}) =>
        \E i \in ExactRows :
            /\ \A j \in ExactRows :
                  Abs(i.snf - last.snf) <= Abs(j.snf - last.snf)
            /\ last.result = Round2(i.rate)

\* two rows match the rounded fat, at different SNF distances and different
\* rates, and a row of the other category has that fat and another rate
C1_Witness ==
    /\ IsFindRate
    /\ last.fat # Round1(last.fat)
    /\ \E i, j \in ExactRows :
          /\ Abs(i.snf - last.snf) < Abs(j.snf - last.snf)
          /\ Round2(i.rate) # Round2(j.rate)
          /\ last.result = Round2(i.rate)
    /\ \E k \in BagToSet(rate_table) :
          /\ k.category # last.category
          /\ k.fat = Round1(last.fat)
          /\ Round2(k.rate) # last.result

NearestFatRows ==
    {i \in CategoryRows : \A j \in CategoryRows :
        Abs(i.fat - Round1(last.fat)) <= Abs(j.fat - Round1(last.fat))}

\* C2 as stated: with rows of the category but none at the rounded fat, the result
\* is the rate of a row of the category that minimises |row.fat - rounded fat|.
C2_NearestFatRate ==
    (IsFindRate /\ CategoryRows # {} /\ ExactRows = {}) =>
        \E i \in NearestFatRows : last.result = i.rate

\* C2 as amended: the result is that row's rate rounded to 2 decimals.
C2_NearestFatRateRounded ==
    (IsFindRate /\ CategoryRows # {} /\ ExactRows = {}) =>
        \E i \in NearestFatRows : last.result = Round2(i.rate)

\* a fat above every slab of the category, whose slabs carry different rates
C2_Witness ==
    /\ IsFindRate
    /\ ExactRows = {}
    /\ \A i \in CategoryRows : i.fat < Round1(last.fat)
    /\ \E i \in NearestFatRows, j \in CategoryRows :
          /\ j.fat < i.fat
          /\ Round2(j.rate) # Round2(i.rate)
          /\ last.result = Round2(i.rate)

\* the fallback formula, on the unrounded fat
FormulaRate(category, fat) ==
    IF StartsWith(Lower(category), <<"b", "u", "f">>)
    THEN Round2(Max(0, BufBaseRate + (fat - BufBaseFat) * RatePerFat))
    ELSE Round2(Max(0, CowBaseRate + (fat - CowBaseFat) * RatePerFat))

\* C3 as stated: with no row of the category, the result is the formula's.
C3_FormulaFallback ==
    (IsFindRate /\ CategoryRows = {}) =>
        last.result = FormulaRate(last.category, last.fat)

\* C3 as amended: an empty category is looked up, and priced, as Cow.
C3_FormulaFallbackDefaultCow ==
    LET cat == IF last.category = Empty THEN Cow ELSE last.category
    IN  (IsFindRate /\ \A i \in BagToSet(rate_table) : i.category # cat) =>
            last.result = FormulaRate(cat, last.fat)

\* "Buffalo" with only Cow rows in the table, at a fat that rounding would change
C3_Witness ==
    /\ IsFindRate
    /\ last.category = Buffalo
    /\ rate_table # EmptyBag
    /\ CategoryRows = {}
    /\ last.fat # Round1(last.fat)
    /\ last.result = FormulaRate(Buffalo, last.fat)
    /\ last.result # FormulaRate(Cow, last.fat)
    /\ last.result # FormulaRate(Buffalo, Round1(last.fat))

-----------------------------------------------------------------------------
(* Claims about farmer codes, checked under SpecFarmers *)

\* C4: get_next_farmer_code returns the smallest positive integer that is not
\* the code of a farmer in the table.
C4_SmallestFreeCode ==
    (last.op = "add_farmer") =>
        /\ last.next_code >= 1
        /\ last.next_code \notin FarmerCodes
        /\ \A k \in 1..(last.next_code - 1) : k \in FarmerCodes

\* the code of a deleted farmer is handed out while higher codes are in use
C4_Witness ==
    /\ last.op = "add_farmer"
    /\ last.next_code > 1
    /\ \E k \in FarmerCodes : k > last.next_code

-----------------------------------------------------------------------------
(* Claims about Delete Farmer, checked under SpecFarmerRecords *)

\* table t2 is table t1 without the rows of farmer c
WithoutFarmer(t1, t2, c) ==
    /\ \A r \in BagToSet(t2) : r.farmer_code # c
    /\ \A r \in BagToSet(t1) \cup BagToSet(t2) :
          r.farmer_code # c => CopiesIn(r, t2) = CopiesIn(r, t1)

\* C5: a committed Delete Farmer of code c leaves no farmer, milk record,
\* advance or advance deduction with code c, and every other farmer's rows
\* as they were; a farmer added under a code starts with no milk record, no
\* advance and no deduction of an amount other than 0.
C5_DeleteRemovesRelated ==
    [][(last'.op = "delete_farmer" /\ last'.ok) =>
          /\ last'.code \notin {f.farmer_code : f \in farmers'}
          /\ farmers' = {f \in farmers : f.farmer_code # last'.code}
          /\ WithoutFarmer(milk_records, milk_records', last'.code)
          /\ WithoutFarmer(advances, advances', last'.code)
          /\ WithoutFarmer(advance_deductions, advance_deductions', last'.code)]_vars
    /\ [][(last'.op = "do_add" /\ last'.ok) =>
             /\ \A r \in BagToSet(milk_records') \cup BagToSet(advances') :
                   r.farmer_code # last'.code
             /\ \A r \in BagToSet(advance_deductions') :
                   r.farmer_code = last'.code => r.amount = 0]_vars

\* a farmer with a row in each table was deleted, and the other farmer's rows remain
C5_Witness ==
    /\ last.op = "delete_farmer"
    /\ last.ok
    /\ last.removed >= 3
    /\ FarmerCodes # {}
    /\ \A c \in FarmerCodes :
          /\ \E r \in BagToSet(milk_records) : r.farmer_code = c
          /\ \E r \in BagToSet(advances) : r.farmer_code = c
          /\ \E r \in BagToSet(advance_deductions) : r.farmer_code = c /\ r.amount > 0

-----------------------------------------------------------------------------
(* Claims about the advance ledger and the bill, checked under SpecLedger *)

AdvancesOf(c) == SumAmount(advances, {r \in BagToSet(advances) : r.farmer_code = c})

DeductionsOf(c) ==
    SumAmount(advance_deductions,
              {r \in BagToSet(advance_deductions) : r.farmer_code = c})

\* C6: the balance get_advance_balance(farmer, m) returns counts the advances
\* and the deductions dated before month m only, so one dated in month m or
\* later does not change it.
C6_BalanceBeforeMonth ==
    (last.op = "fetch_info" /\ last.ok) =>
        last.bal =
            Round2(SumAmount(advances, {r \in BagToSet(advances) :
                       r.farmer_code = last.code /\ MonthOf(r.date) < last.month})
                   - SumAmount(advance_deductions,
                       {r \in BagToSet(advance_deductions) :
                           r.farmer_code = last.code /\ r.month < last.month}))

\* C7: for every farmer the deductions recorded never add up to more than the
\* advances recorded.
C7_DeductionsWithinAdvances ==
    \A c \in {r.farmer_code : r \in BagToSet(advance_deductions)} :
        DeductionsOf(c) <= AdvancesOf(c)

\* C8: a Generate Bill of farmer f, month m and deduction ded that succeeds
\* shows as earnings the sum of the amounts of f's milk records dated in m, as
\* net round(earnings - ded, 2), and adds one deduction row that carries f, m
\* and ded.
C8_BillFigures ==
    [][(last'.op = "generate_and_save" /\ last'.ok) =>
          LET f == last'.code
              m == last'.month
              ded == last'.ded_e.val
              dated == {r \in BagToSet(milk_records) :
                            r.farmer_code = f /\ r.date.month = m}
          IN  /\ last'.earnings = SumAmount(milk_records, dated)
              /\ last'.net = Round2(last'.earnings - ded)
              /\ advance_deductions' = advance_deductions (+)
                    SetToBag({[farmer_code |-> f, month |-> m, amount |-> ded]})]_vars

\* a bill with earnings from the farmer's two milk records of the month, of
\* different shifts and categories, and none from the third; a deduction that is no multiple of 0.01, by a farmer who has a deduction of
\* another month and while another farmer has earnings too
C8_Witness ==
    /\ last.op = "generate_and_save"
    /\ last.ok
    /\ \E r1, r2 \in BagToSet(milk_records) :
          /\ r1.farmer_code = last.code /\ r2.farmer_code = last.code
          /\ r1.date.month = last.month /\ r2.date.month = last.month
          /\ r1.shift # r2.shift /\ r1.category # r2.category
          /\ last.earnings = r1.amount + r2.amount
    /\ last.net # last.earnings - last.ded_e.val
    /\ \E r \in BagToSet(milk_records) :
          r.farmer_code = last.code /\ r.date.month # last.month
    /\ \E r \in BagToSet(milk_records) : r.farmer_code # last.code
    /\ BagCardinality(advance_deductions) > 1

-----------------------------------------------------------------------------
(* Claims about record_milk_late, checked under SpecMilk *)

\* the rows of the table milk on the key of the call with arguments a
OnKey(milk, a) ==
    {r \in BagToSet(milk) : /\ r.farmer_code = a.farmer_code
                            /\ r.date = NormalizeDateInput(a.date_str)
                            /\ r.shift = a.shift
                            /\ r.category = a.category}

\* the row carries the litres, fat and snf of the call, the rate of the rate
\* table for them and the amount round(litres * rate, 2)
HoldsNew(r, a) ==
    /\ r.litres = a.litres.val
    /\ r.fat = a.fat.val
    /\ r.snf = a.snf.val
    /\ r.rate \in FindRateFor(rate_table, a.category, a.fat.val, a.snf.val)
    /\ r.amount = RoundHalfEven(r.litres * r.rate, 10000) * 10

\* C9: record_milk_late upserts on (farmer_code, date, shift, category): with
\* a row on the key it gives that row the new litres, fat, snf, rate and
\* amount and adds no row, else it inserts one row; the rows on other keys stay,
\* and the same call made again leaves milk_records as the first call left it.
C9_UpsertOnKey ==
    [][(last'.op = "record_milk_late" /\ last'.ok) =>
          LET a == last'.args
              before == OnKey(milk_records, a)
              after == OnKey(milk_records', a)
          IN  /\ after # {}
              /\ \A r \in after : HoldsNew(r, a)
              /\ \A r \in (BagToSet(milk_records) \ before)
                          \cup (BagToSet(milk_records') \ after) :
                    CopiesIn(r, milk_records') = CopiesIn(r, milk_records)
              /\ BagCardinality(milk_records') =
                    BagCardinality(milk_records) + (IF before = {} THEN 1 ELSE 0)
              /\ \A again \in RecordMilkLate(milk_records', rate_table', FarmerCodes', a) :
                    again.ok /\ again.milk = milk_records']_vars

\* a call has updated the rows on its key, given in the other date format and
\* with litres and fat they did not hold, while a row on another key stays
C9_Witness ==
    /\ last.op = "record_milk_late"
    /\ last.ok
    /\ last.args.date_str.fmt = "%Y-%m-%d"
    /\ last.args.litres.val = 2505
    /\ last.args.fat.val = 3450
    /\ \E r \in OnKey(milk_records, last.args) :
          milk_records[r] = 2 /\ r.rate = 32250 /\ r.amount = 80790
    /\ BagToSet(milk_records) \ OnKey(milk_records, last.args) # {}

\* the arguments a name a date, a farmer on record and three numbers not below 0
ValidCall(a) ==
    /\ a.date_str.fmt \in {"%d/%m/%Y", "%d-%m-%Y", "%Y-%m-%d", "%Y/%m/%d"}
    /\ \E f \in farmers : f.farmer_code = a.farmer_code
    /\ a.litres.numeric /\ a.fat.numeric /\ a.snf.numeric
    /\ a.litres.val >= 0 /\ a.fat.val >= 0 /\ a.snf.val >= 0

\* C10: record_milk_late returns True when it has written the row and False
\* on a bad date, an unknown farmer, a negative or a non-numeric value, and
\* when it returns False milk_records is as it was.
C10_FalseLeavesUnchanged ==
    [][(last'.op = "record_milk_late") =>
          /\ last'.ok = ValidCall(last'.args)
          /\ last'.ok => \E r \in OnKey(milk_records', last'.args) :
                            HoldsNew(r, last'.args)
          /\ ~last'.ok => milk_records' = milk_records]_vars

\* a call with a negative value for an existing farmer and date has failed
\* while the table holds a row on its key
C10_Witness ==
    /\ last.op = "record_milk_late"
    /\ ~last.ok
    /\ last.args.farmer_code \in FarmerCodes
    /\ NormalizeDateInput(last.args.date_str) # ValueError
    /\ last.args.litres.numeric /\ last.args.litres.val < 0
    /\ OnKey(milk_records, last.args) # {}

-----------------------------------------------------------------------------
(* Claims about the start and the login, checked under SpecSession *)

\* C11: get_shift_for_time gives 'Morning' for the hours 6 to 15 and 'Evening'
\* for every other hour of 0..23, and the filter a start sets is that value for
\* the hour of the start.
C11_ShiftOfHour ==
    /\ \A h \in 0..23 :
          /\ GetShiftForTime(h) \in {"Morning", "Evening"}
          /\ GetShiftForTime(h) = "Morning" <=> h \in {6, 7, 8, 9, 10, 11, 12, 13, 14, 15}
    /\ last.op = "start" =>
          /\ last.hour \in {0, 1, 2, 3, 4, 5} \cup (16..23) =>
                ui.current_shift_filter = "Evening"
          /\ last.hour \in 6..15 => ui.current_shift_filter = "Morning"

\* the program was started in the first evening hour
C11_Witness ==
    /\ last.op = "start"
    /\ last.hour = 16
    /\ ui.current_shift_filter = "Evening"

\* the login of the step succeeds on the texts user and password
LoginMatches(user, password) ==
    /\ user # <<>>
    /\ password # <<>>
    /\ \E row \in users :
          row.username = user /\ row.password_hash = <<"sha256">> \o password

\* C14 as stated: do_login sets current_user and opens the main screen only
\* when a users row of the entered username has the SHA-256 of the entered
\* password; otherwise it stays on the login screen with current_user unchanged.
C14_LoginOnEnteredTexts ==
    [][(last'.op = "do_login") =>
          IF LoginMatches(last'.username_e, last'.password_e)
          THEN ui'.screen = "main" /\ ui'.current_user = last'.username_e
          ELSE ui'.screen = "login" /\ ui'.current_user = ui.current_user]_vars

\* C14: the main screen is reached by a do_login only; do_login sets
\* current_user and opens the main screen exactly when a users row of the
\* entered username, stripped of surrounding blanks, has the SHA-256 of the
\* entered password, stripped likewise, and neither is empty; otherwise it stays
\* on the login screen with current_user unchanged.
C14_LoginOnStrippedTexts ==
    /\ [][(last'.op = "do_login") =>
             IF LoginMatches(Strip(last'.username_e), Strip(last'.password_e))
             THEN /\ ui'.screen = "main"
                  /\ ui'.current_user = Strip(last'.username_e)
                  /\ last'.ok
             ELSE /\ ui'.screen = "login"
                  /\ ui'.current_user = ui.current_user
                  /\ ~last'.ok]_vars
    /\ [][(ui'.screen = "main" /\ ui.screen # "main") =>
             (last'.op = "do_login" /\ ui.screen = "login")]_vars

\* a login with blanks around the user name and the password has opened the
\* main screen, with a user on record whose password would not have opened it
C14_Witness ==
    /\ last.op = "do_login"
    /\ last.ok
    /\ ui.screen = "main"
    /\ last.username_e # Strip(last.username_e)
    /\ last.password_e # Strip(last.password_e)
    /\ \E row \in users : row.username # ui.current_user

\* C15: after init_db_and_migrate there is an admin user with a password hash
\* that is not NULL; an admin hash that was not NULL and every other user are
\* as before; a rate_table that was empty holds the sample slabs and one that was
\* not is unchanged; running it again changes nothing.
C15_MigrateKeepsData ==
    [][(last'.op = "start") =>
          /\ \E u \in users' : u.username = Admin /\ u.password_hash # NullHash
          /\ \A u \in users :
                (u.username # Admin \/ u.password_hash # NullHash) => u \in users'
          /\ \A u \in users' : u.username # Admin => u \in users
          /\ Cardinality({u \in users' : u.username = Admin}) = 1
          /\ rate_table # EmptyBag => rate_table' = rate_table
          /\ rate_table = EmptyBag =>
                /\ BagCardinality(rate_table') = 92
                /\ \A r \in BagToSet(rate_table') :
                      /\ r.snf = 8000
                      /\ r.category = Cow =>
                            r.fat \in 3000..6000 /\ r.rate = 30000 + (r.fat - 3000) * 5
                      /\ r.category = Buffalo =>
                            r.fat \in 5000..11000 /\ r.rate = 45000 + (r.fat - 5000) * 5
          /\ InitDbAndMigrate(users', rate_table') =
                [users |-> users', rate_table |-> rate_table']]_vars

\* a restart has kept the password the admin changed, another user without a
\* password and a rate table of one row
C15_Witness ==
    /\ last.op = "start"
    /\ \E u \in users : u.username = Admin /\ u.password_hash = HashPassword(Secret)
    /\ \E u \in users : u.username = Ram /\ u.password_hash = NullHash
    /\ BagCardinality(rate_table) = 1

-----------------------------------------------------------------------------
(* Claims about the dashboard and the Missed Milk popup, checked under
   SpecDashboard *)

\* C12: a missed-milk entry dated after today is rejected and no milk record
\* with a date after today is stored.
C12_NoFutureDate ==
    /\ (last.op = "record_milk_late"
        /\ DateAfter(NormalizeDateInput(last.args.date_str), now.date)) => ~last.ok
    /\ \A r \in BagToSet(milk_records) : ~DateAfter(r.date, now.date)

\* C13: a start sets current_shift_filter to the shift of the hour, and on the
\* main screen, whenever current_shift_filter is 'Morning' or 'Evening', the
\* milk-records table lists only records dated today with that shift.
C13_TableShowsFilter ==
    /\ last.op = "start" => ui.current_shift_filter = GetShiftForTime(last.hour)
    /\ (ui.screen = "main" /\ ui.current_shift_filter \in {"Morning", "Evening"}) =>
          \A r \in BagToSet(ui.records_tv) :
              r.date = now.date /\ r.shift = ui.current_shift_filter

-----------------------------------------------------------------------------
(* Claims about stored amounts, checked under SpecAmounts *)

\* C16: every milk record stored has amount = litres * rate rounded to 2
\* decimals, whatever was done since it was stored, and an edit of the rate
\* table leaves the milk records as they are.
C16_AmountIsLitresTimesRate ==
    /\ [](\A r \in BagToSet(milk_records) :
             r.amount = RoundHalfEven(r.litres * r.rate, 10000) * 10)
    /\ [][(last'.op \in {"add_rate", "del_rate"}) => milk_records' = milk_records]_vars

\* records saved by the form and by quick entry at rates that are no longer in
\* the rate table, one of them typed, with amounts that needed rounding
C16_Witness ==
    /\ last.op = "del_rate"
    /\ last.ok
    /\ rate_table = EmptyBag
    /\ \E r1, r2 \in BagToSet(milk_records) :
          /\ r1.rate = 31007
          /\ r2.rate \notin {31007, 30000}
          /\ r2.litres * r2.rate # r2.amount * 1000
          /\ r1.litres * r1.rate # r1.amount * 1000

-----------------------------------------------------------------------------
(* Claims about the monthly report, checked under SpecReport *)

\* the net payable of the report's page for a farmer and a category
NetPayOf(pages, code, category) ==
    LET ps == {p \in pages : p.farmer_code = code /\ p.category = category}
    IN  IF ps = {} THEN 0 ELSE (CHOOSE p \in ps : TRUE).net_pay

\* C17: in the monthly report, for every farmer with a milk record in the month
\* the net payable summed over the farmer's pages is the farmer's milk amount of
\* the month minus the farmer's advances of the month.
C17_NetIsMilkMinusAdvances ==
    (last.op = "monthly_report" /\ last.ok) =>
        \A f \in farmers :
            LET code == f.farmer_code
                milk == {r \in BagToSet(milk_records) :
                            r.farmer_code = code /\ r.date.month = last.month}
                adv == {a \in BagToSet(advances) :
                            a.farmer_code = code /\ a.date.month = last.month}
            IN  milk # {} =>
                    NetPayOf(last.pages, code, Cow) + NetPayOf(last.pages, code, Buffalo)
                        = SumAmount(milk_records, milk) - SumAmount(advances, adv)

-----------------------------------------------------------------------------
(* Claims about Delete Farmer with errors, checked under SpecDeleteFarmer *)

\* C18: Delete Farmer removes the farmer row and all of the farmer's milk
\* records, advances and advance deductions together, or, when the confirmation
\* is declined or a statement raises a database error, removes none of them.
C18_DeleteAllOrNothing ==
    [][(last'.op = "delete_farmer") =>
          IF last'.ok
          THEN /\ farmers' = {f \in farmers : f.farmer_code # last'.code}
               /\ WithoutFarmer(milk_records, milk_records', last'.code)
               /\ WithoutFarmer(advances, advances', last'.code)
               /\ WithoutFarmer(advance_deductions, advance_deductions', last'.code)
          ELSE /\ farmers' = farmers
               /\ milk_records' = milk_records
               /\ advances' = advances
               /\ advance_deductions' = advance_deductions]_vars

\* the DELETE on farmers failed for a farmer with a row in each table, after
\* the three DELETEs before it, and the farmer's rows are all there
C18_Witness ==
    /\ last.op = "delete_farmer"
    /\ ~last.ok
    /\ "failed_at" \in DOMAIN last
    /\ last.failed_at = 4
    /\ last.code \in FarmerCodes
    /\ \E r \in BagToSet(milk_records) : r.farmer_code = last.code
    /\ \E r \in BagToSet(advances) : r.farmer_code = last.code
    /\ \E r \in BagToSet(advance_deductions) : r.farmer_code = last.code /\ r.amount > 0

-----------------------------------------------------------------------------
(* Claims about the code of a saved farmer, checked under SpecFarmers *)

\* C19: a farmer saved from an Add Farmer dialog has the smallest code that is
\* free when the farmer is saved, whatever dialogs were opened and farmers
\* saved or deleted meanwhile.
C19_SavedCodeIsSmallestFree ==
    (last.op = "do_add" /\ last.ok) =>
        \A k \in 1..(last.code - 1) : k \in FarmerCodes

-----------------------------------------------------------------------------
(* Claims about rejected bills, checked under SpecLedger *)

\* C20: a Generate Bill whose deduction is not a number, is negative, is greater
\* than the farmer's advances less deductions dated before the month, or is
\* greater than the earnings with the confirmation declined, writes no bill
\* and leaves advance_deductions as it is.
C20_BadDeductionRejected ==
    [][(last'.op = "generate_and_save" /\ IsNumeric(last'.code_e)) =>
          LET f == last'.code_e.val
              m == last'.month
              ded_e == last'.ded_e
              before ==
                  Round2(SumAmount(advances, {r \in BagToSet(advances) :
                             r.farmer_code = f /\ r.date.month < m})
                         - SumAmount(advance_deductions,
                             {r \in BagToSet(advance_deductions) :
                                 r.farmer_code = f /\ r.month < m}))
              earnings == SumAmount(milk_records, {r \in BagToSet(milk_records) :
                              r.farmer_code = f /\ r.date.month = m})
              bad == IF ~IsNumeric(ded_e) THEN TRUE
                     ELSE \/ ded_e.val < 0
                          \/ ded_e.val > before
                          \/ (ded_e.val > earnings /\ ~last'.confirm)
          IN  bad => (~last'.ok /\ advance_deductions' = advance_deductions)]_vars

-----------------------------------------------------------------------------
(* Claims about the rate of a saved record, checked under SpecQuickEntry *)

\* C21: the rate of a milk record stored by Save Record is what find_rate_for
\* gives, on the rate table at the moment of saving, for the category, fat and
\* SNF stored in the record.
C21_StoredRateIsLookup ==
    [][(last'.op = "quick_save_record" /\ last'.ok) =>
          \A r \in BagToSet(milk_records') :
              CopiesIn(r, milk_records') > CopiesIn(r, milk_records) =>
                  r.rate \in FindRateFor(rate_table, r.category, r.fat, r.snf)]_vars

====
